---- MODULE Spec2Model ----
(***************************************************************************)
(* GNSS SmartNav: location mode (location_mode.py) and route mode          *)
(* (route_mode.py) as state machines over the Streamlit session state,     *)
(* the st.cache_data caches and the outcomes of the external providers.    *)
(*                                                                         *)
(* Representation:                                                         *)
(*   - coordinates are integers in units of 1e-4 degree (lat4, lon4);      *)
(*   - cloud, rain and TEC are fixed-point numbers with Scale units per    *)
(*     percent / mm / TEC unit; Kp is an integer;                          *)
(*   - numpy's bit generator behind np.random.default_rng is abstracted    *)
(*     by a 16-bit linear congruential generator: what matters to the      *)
(*     program is that a generator is a value determined by its seed and   *)
(*     advanced by every draw;                                             *)
(*   - time is in seconds since the session started.                       *)
(***************************************************************************)
EXTENDS Integers, Sequences, FiniteSets, TLC

\* ------------------------------------------------------------------ bounds
Scale == 100
MaxN == 2
MaxTicks == 7
GeoTicks == 2
MaxRouteLen == 3

\* ------------------------------------------------------- program constants
SeedMod == 100000
TTL_WEATHER == 600
TTL_KP == 3600
TTL_GEO == 600

\* --------------------------------------------------------------- universes

\* Two places the geocoders know (Bengaluru, Mumbai) and their coordinates.
Places == {"A", "B"}
Coord(p) == IF p = "A" THEN <<129716, 775946>> ELSE <<190760, 728777>>
Points == {Coord(p) : p \in Places}

\* Forecast times (epoch seconds, 3 hours apart) a forecast table offers.
Times == {1793491200, 1793502000}

VARIABLES
    clock,          \* seconds since the session started
    ORS_API_KEY,    \* TRUE iff the routing/geocoding key is set in the environment
    cache_weather,  \* st.cache_data of fetch_openweather: (lat, lon) -> entry
    cache_kp,       \* st.cache_data of fetch_kp: entry
    cache_geo,      \* st.cache_data of geocode_place: place -> entry
    loc,            \* st.session_state["loc"]
    weather_df,     \* st.session_state["weather_df"]
    kp_df,          \* st.session_state["kp_df"]
    prediction_done,\* st.session_state.prediction_done
    prediction,     \* st.session_state.prediction
    route_data,     \* st.session_state.route_data
    lastCall,       \* the last call of a function: arguments, requests issued, outcome
    prevCall,       \* the call before it
    lastRun,        \* what the last script run (interaction) did and showed
    pendingFail     \* location whose weather fetch raised and has not succeeded since

vars == <<clock, ORS_API_KEY, cache_weather, cache_kp, cache_geo, loc, weather_df,
          kp_df, prediction_done, prediction, route_data, lastCall, prevCall,
          lastRun, pendingFail>>

cacheVars == <<cache_weather, cache_kp, cache_geo>>
locVars == <<loc, weather_df, kp_df, prediction_done, prediction, pendingFail>>

\* ------------------------------------------------ deterministic generators

\* int(x) of Python for x = n/10 + ts: truncation towards zero.
TruncTenths(n, ts) ==
    LET q == n \div 10
        r == n % 10
    IN IF r # 0 /\ ts + q < 0 THEN ts + q + 1 ELSE ts + q

\* seed = int(lat * 1000 + lon * 1000 + dt.timestamp()) % 100000
LocationSeed(lat4, lon4, ts) == TruncTenths(lat4 + lon4, ts) % SeedMod

\* seed = int(lat * 10000 + lon * 10000 + i) % 100000
RouteSeed(lat4, lon4, i) == (lat4 + lon4 + i) % SeedMod

\* One step of the bit generator.
LcgNext(g) == (g * 25173 + 13849) % 65536

\* np.random.default_rng(seed): a fresh generator determined by the seed.
default_rng(seed) == LcgNext(seed % 65536)

\* rng.uniform(lo, hi): the value drawn in state g, in Scale units.
Uniform(g, lo, hi) == lo * Scale + (g * ((hi - lo) * Scale)) \div 65536

\* rng.exponential(scale=2): the decile quantiles of the distribution
\* (-2 ln(1 - u) at u = 0.05, 0.15, ..., 0.95), in Scale units.
ExpQuantile == <<10, 33, 58, 86, 120, 160, 210, 277, 379, 599>>
Exponential(g) == (ExpQuantile[((g * 10) \div 65536) + 1] * Scale) \div 100

\* rng.integers(0, 10): an integer in 0..9.
Integers10(g) == (g * 10) \div 65536

\* rng.uniform(c - 5, c + 5) around a coordinate, in 1e-4 degree.
Scatter(g, c4) == c4 - 50000 + ((g * 1000) \div 65536) * 100

\* seeded_rng builds a fresh generator from (lat, lon, dt) alone. The variant
\* seeds from the wall clock (datetime.now()) instead of dt.
seeded_rng_wallclock(lat4, lon4, ts) == default_rng(LocationSeed(lat4, lon4, clock))
seeded_rng(lat4, lon4, ts) == default_rng(LocationSeed(lat4, lon4, ts))

\* The rule of predict_outage; the variant compares Kp strictly.
predict_outage_kp_strict(cloud, rain, tec, kp) ==
    cloud > 70 * Scale /\ rain > 1 * Scale /\ tec > 25 * Scale /\ kp > 5
predict_outage(cloud, rain, tec, kp) ==
    cloud > 70 * Scale /\ rain > 1 * Scale /\ tec > 25 * Scale /\ kp >= 5

\* The four draws of get_fixed_values, in the order the code makes them.
get_fixed_values(lat4, lon4, ts) ==
    LET g1 == seeded_rng(lat4, lon4, ts)
        g2 == LcgNext(g1)
        g3 == LcgNext(g2)
        g4 == LcgNext(g3)
    IN [cloud |-> Uniform(g1, 0, 100), rain |-> Exponential(g2),
        tec |-> Uniform(g3, 20, 80), kp |-> Integers10(g4)]

\* The generator after k further draws.
RECURSIVE Advance(_, _)
Advance(g, k) == IF k = 0 THEN g ELSE Advance(LcgNext(g), k - 1)

\* simulate_points: numpy draws column by column, n values per column.
simulate_points(n, lat4, lon4, ts) ==
    LET g0 == seeded_rng(lat4, lon4, ts)
        At(col, row) == Advance(g0, col * n + (row - 1))
    IN [row \in 1..n |->
          [lat |-> Scatter(At(0, row), lat4),
           lon |-> Scatter(At(1, row), lon4),
           cloud |-> Uniform(At(2, row), 0, 100),
           rain |-> Exponential(At(3, row)),
           tec |-> Uniform(At(4, row), 20, 80),
           kp |-> Integers10(At(5, row))]]

\* get_outage_prediction: `and` short-circuits, so a draw is made only when
\* the draws before it passed; the generator is local to the call.
get_outage_prediction(lat4, lon4, i) ==
    LET g1 == default_rng(RouteSeed(lat4, lon4, i))
        g2 == LcgNext(g1)
        g3 == LcgNext(g2)
        g4 == LcgNext(g3)
    IN /\ Uniform(g1, 0, 100) > 70 * Scale
       /\ Exponential(g2) > 1 * Scale
       /\ Uniform(g3, 20, 80) > 25 * Scale
       /\ Integers10(g4) >= 5

\* ---------------------------------------------------------- initial state

\* An absent value (a key missing from the session, an empty cache slot) is
\* the empty sequence, a present value v is <<v>>.
Absent == <<>>
Some(v) == <<v>>
Has(x) == x # <<>>
Get(x) == x[1]

\* A call record: the function, its arguments, the provider requests it
\* issued in order, and its outcome (kind "return", "None" or "raise").
\* For a cached function, `before` is the cache slot the call found and `at`
\* the time of the call.
NoCall == [fn |-> "none", args |-> <<>>, requests |-> <<>>,
           out |-> [kind |-> "none", val |-> <<>>], before |-> <<>>, at |-> 0]
Call(fn, args, requests, kind, val) ==
    [fn |-> fn, args |-> args, requests |-> requests,
     out |-> [kind |-> kind, val |-> val], before |-> <<>>, at |-> 0]
CachedCallRecord(fn, args, r, before) ==
    [fn |-> fn, args |-> args, requests |-> r.requests,
     out |-> [kind |-> r.kind, val |-> r.val], before |-> before, at |-> clock]

\* A script run: the button pressed, the provider requests issued in order,
\* what the page showed, whether the run ended in an uncaught exception, and
\* (location mode) the location the classifier was trained for.
NoRun == [mode |-> "none", pressed |-> "none", args |-> <<>>, requests |-> <<>>,
          shown |-> "none", message |-> "", raised |-> FALSE, trainedFor |-> <<>>,
          metrics |-> <<>>, labels |-> <<>>]
\* st.session_state.route_data: missing ("unset"), None ("none"), or the tuple
\* (route, start_info, end_info, summary) get_route returned ("route").
NoRoute == [state |-> "unset", route |-> <<>>, s_info |-> <<>>, e_info |-> <<>>,
            summary |-> <<>>]
NoneRoute == [NoRoute EXCEPT !.state = "none"]

InitState ==
    /\ clock = 0
    /\ cache_weather = [pt \in Points |-> Absent]
    /\ cache_kp = Absent
    /\ cache_geo = [p \in Places |-> Absent]
    /\ loc = Absent
    /\ weather_df = Absent
    /\ kp_df = Absent
    /\ prediction_done = Absent
    /\ prediction = Absent
    /\ route_data = NoRoute
    /\ lastCall = NoCall
    /\ prevCall = NoCall
    /\ lastRun = NoRun
    /\ pendingFail = Absent

\* Wall-clock time passes between calls (10 minutes at a time, at most n times).
Tick(n) ==
    /\ clock < n * TTL_WEATHER
    /\ clock' = clock + TTL_WEATHER
    /\ UNCHANGED <<ORS_API_KEY, cacheVars, locVars, route_data, lastCall,
                   prevCall, lastRun>>

\* A call of a function that touches neither the session nor the caches.
Record(c) ==
    /\ lastCall' = c
    /\ prevCall' = lastCall
    /\ UNCHANGED <<clock, ORS_API_KEY, cacheVars, locVars, route_data, lastRun>>

\* ------------------------------------- the generators and the rule, called

\* Stored routes: sequences of up to MaxRouteLen vertices.
RECURSIVE SeqsUpTo(_, _)
SeqsUpTo(S, n) ==
    IF n = 0 THEN {<<>>}
    ELSE LET shorter == SeqsUpTo(S, n - 1)
         IN shorter \cup {Append(s, x) : s \in shorter, x \in S}
Routes == SeqsUpTo(Points, MaxRouteLen)

\* The loop of show_route_mode: for i, pt in enumerate(route[1:], 1).
RouteLabels(route) ==
    [i \in 1..(Len(route) - 1) |->
        get_outage_prediction(route[i + 1][1], route[i + 1][2], i)]

RuleCloud == {70 * Scale - 1, 70 * Scale, 70 * Scale + 1}
RuleRain == {1 * Scale - 1, 1 * Scale, 1 * Scale + 1}
RuleTec == {25 * Scale - 1, 25 * Scale, 25 * Scale + 1}
RuleKp == {4, 5, 6}

CallSeededRng ==
    \E pt \in Points, ts \in Times :
        Record(Call("seeded_rng", <<pt[1], pt[2], ts>>, <<>>, "return",
                    <<LocationSeed(pt[1], pt[2], ts), seeded_rng(pt[1], pt[2], ts)>>))

CallGetFixedValues ==
    \E pt \in Points, ts \in Times :
        Record(Call("get_fixed_values", <<pt[1], pt[2], ts>>, <<>>, "return",
                    get_fixed_values(pt[1], pt[2], ts)))

CallSimulatePoints ==
    \E n \in 1..MaxN, pt \in Points, ts \in Times :
        Record(Call("simulate_points", <<n, pt[1], pt[2], ts>>, <<>>, "return",
                    simulate_points(n, pt[1], pt[2], ts)))

CallGetOutagePrediction ==
    \E pt \in Points, i \in 1..MaxRouteLen :
        Record(Call("get_outage_prediction", <<pt[1], pt[2], i>>, <<>>, "return",
                    get_outage_prediction(pt[1], pt[2], i)))

CallRouteLabels ==
    \E route \in Routes :
        Record(Call("route_labels", route, <<>>, "return", RouteLabels(route)))

CallPredictOutage ==
    \E cloud \in RuleCloud, rain \in RuleRain, tec \in RuleTec, kp \in RuleKp :
        Record(Call("predict_outage", <<cloud, rain, tec, kp>>, <<>>, "return",
                    predict_outage(cloud, rain, tec, kp)))

InitPure == InitState /\ ORS_API_KEY = TRUE

NextPure ==
    \/ Tick(GeoTicks)
    \/ CallSeededRng
    \/ CallGetFixedValues
    \/ CallSimulatePoints
    \/ CallGetOutagePrediction
    \/ CallRouteLabels
    \/ CallPredictOutage

SpecPure == InitPure /\ [][NextPure]_vars

Seeded == {"seeded_rng", "get_fixed_values", "simulate_points",
           "get_outage_prediction", "route_labels"}

C3_Rule ==
    lastCall.fn = "predict_outage" =>
        LET cloud == lastCall.args[1]
            rain == lastCall.args[2]
            tec == lastCall.args[3]
            kp == lastCall.args[4]
        IN /\ (cloud <= 70 * Scale \/ rain <= Scale \/ tec <= 25 * Scale \/ kp <= 4)
                => lastCall.out.val = FALSE
           /\ (cloud >= 70 * Scale + 1 /\ rain >= Scale + 1 /\ tec >= 25 * Scale + 1
               /\ kp >= 5) => lastCall.out.val = TRUE

\* The rule applied at the inclusive Kp boundary with the others just above.
C3_Witness ==
    /\ lastCall.fn = "predict_outage"
    /\ lastCall.args = <<70 * Scale + 1, Scale + 1, 25 * Scale + 1, 5>>
    /\ lastCall.out.val = TRUE

\* ------------------------------------------------ st.cache_data and adapters

\* @st.cache_data(ttl=...): an entry is served while it is younger than ttl.
\* The variant is a cache without ttl.
Fresh_never_expires(entry, ttl) == Has(entry)
Fresh(entry, ttl) == Has(entry) /\ clock < Get(entry).at + ttl

\* A call through the cache: a fresh entry is returned without running the
\* body; otherwise the body runs, and what it returns (None included) is
\* stored with the time of the call. A body that raises stores nothing.
CachedCall(entry, ttl, body) ==
    IF Fresh(entry, ttl)
    THEN [requests |-> <<>>, kind |-> Get(entry).kind, val |-> Get(entry).val,
          entry |-> entry]
    ELSE [requests |-> body.requests, kind |-> body.kind, val |-> body.val,
          entry |-> IF body.kind = "raise" THEN Absent
                    ELSE Some([kind |-> body.kind, val |-> body.val, at |-> clock])]

Outcomes == {"ok", "raise"}

\* fetch_openweather(lat, lon): one GET; raise_for_status or a timeout raises.
\* The forecast served is identified by the time the provider served it.
fetch_openweather(pt, outcome) ==
    CachedCall(cache_weather[pt], TTL_WEATHER,
        IF outcome = "ok"
        THEN [requests |-> << <<"forecast", pt>> >>, kind |-> "return",
              val |-> [pt |-> pt, served |-> clock]]
        ELSE [requests |-> << <<"forecast", pt>> >>, kind |-> "raise", val |-> <<>>])

\* fetch_kp(): one GET, no arguments.
fetch_kp(outcome) ==
    CachedCall(cache_kp, TTL_KP,
        IF outcome = "ok"
        THEN [requests |-> << <<"kp">> >>, kind |-> "return", val |-> [served |-> clock]]
        ELSE [requests |-> << <<"kp">> >>, kind |-> "raise", val |-> <<>>])

\* What one Nominatim query can do: find the place, find nothing, time out,
\* be unavailable, or fail with another geopy error.
GeoOutcomes == {"found", "none", "timeout", "unavailable", "error"}
Swallowed == {"none", "timeout", "unavailable"}
Skipped == [requests |-> <<>>, kind |-> "skip", val |-> <<>>, entry |-> <<>>]

\* The body of geocode_place: the place, then the place with ", India".
\* The variant asks once and raises when that query finds nothing.
geocode_place_body_no_retry(place, o1, o2) ==
    LET q1 == <<"nominatim", place, "">>
        found == <<Coord(place)[1], Coord(place)[2], place>>
    IN IF o1 = "found" THEN [requests |-> <<q1>>, kind |-> "return", val |-> found]
       ELSE [requests |-> <<q1>>, kind |-> "raise", val |-> <<>>]
geocode_place_body(place, o1, o2) ==
    LET q1 == <<"nominatim", place, "">>
        q2 == <<"nominatim", place, ", India">>
        found == <<Coord(place)[1], Coord(place)[2], place>>
    IN IF o1 = "found" THEN [requests |-> <<q1>>, kind |-> "return", val |-> found]
       ELSE IF o1 \notin Swallowed
            THEN [requests |-> <<q1>>, kind |-> "raise", val |-> <<>>]
       ELSE IF o2 = "found"
            THEN [requests |-> <<q1, q2>>, kind |-> "return", val |-> found]
       ELSE IF o2 \notin Swallowed
            THEN [requests |-> <<q1, q2>>, kind |-> "raise", val |-> <<>>]
       ELSE [requests |-> <<q1, q2>>, kind |-> "None", val |-> <<>>]

geocode_place(place, o1, o2) ==
    CachedCall(cache_geo[place], TTL_GEO, geocode_place_body(place, o1, o2))

\* What the openrouteservice search can answer: a feature, no features, a
\* failed request (timeout, HTTP error), or a feature without the expected fields.
OrsOutcomes == {"found", "empty", "fail", "malformed"}

\* The GeoJSON feature the provider returns for a place: [lon, lat] and a label.
OrsFeature(place) == [coordinates |-> <<Coord(place)[2], Coord(place)[1]>>, label |-> place]

\* ors_geocode(place): None without a request when the key is missing; the
\* bare except turns every failure into None; coords are swapped to (lat, lon).
ors_geocode(place, outcome) ==
    LET q == <<"geocode/search", place>>
        f == OrsFeature(place)
    IN IF ~ORS_API_KEY THEN [requests |-> <<>>, kind |-> "None", val |-> <<>>]
       ELSE IF outcome = "found"
            THEN [requests |-> <<q>>, kind |-> "return",
                  val |-> <<f.coordinates[2], f.coordinates[1], f.label>>]
       ELSE [requests |-> <<q>>, kind |-> "None", val |-> <<>>]

\* ------------------------------------------------------------ location mode

Session == [loc |-> loc, weather_df |-> weather_df, kp_df |-> kp_df,
            prediction_done |-> prediction_done]

\* Lines 105-111 on the session, given the three calls' results: loc is stored
\* before the forecast is fetched, and a raising fetch ends the run there.
\* The variant stores loc only once both fetches have returned.
FetchUpdate_loc_last(sess, g, w, k) ==
    IF g.kind = "raise" \/ w.kind = "raise" \/ k.kind = "raise"
    THEN [sess |-> IF w.kind = "return"
                   THEN [sess EXCEPT !.weather_df = Some(w.val)] ELSE sess,
          raised |-> TRUE]
    ELSE IF g.kind = "None" THEN [sess |-> sess, raised |-> FALSE]
    ELSE [sess |-> [sess EXCEPT !.loc = Some(g.val), !.weather_df = Some(w.val),
                                !.kp_df = Some(k.val), !.prediction_done = Some(FALSE)],
          raised |-> FALSE]
FetchUpdate(sess, g, w, k) ==
    IF g.kind = "raise" THEN [sess |-> sess, raised |-> TRUE]
    ELSE IF g.kind = "None" THEN [sess |-> sess, raised |-> FALSE]
    ELSE LET s1 == [sess EXCEPT !.loc = Some(g.val)]
         IN IF w.kind = "raise" THEN [sess |-> s1, raised |-> TRUE]
            ELSE LET s2 == [s1 EXCEPT !.weather_df = Some(w.val)]
                 IN IF k.kind = "raise" THEN [sess |-> s2, raised |-> TRUE]
                    ELSE [sess |-> [s2 EXCEPT !.kp_df = Some(k.val),
                                              !.prediction_done = Some(FALSE)],
                          raised |-> FALSE]

\* What the rest of the script shows once the buttons are handled.
Shown(wdf, done) ==
    IF ~Has(wdf) THEN "enter_location"
    ELSE IF done # Some(TRUE) THEN "select_time"
    ELSE "result"

\* A run with 'Fetch Available Times' pressed and a non-empty location.
RunFetch ==
    \E place \in Places :
    \E g \in {geocode_place(place, o1, o2) : o1, o2 \in GeoOutcomes} :
        LET pt == <<g.val[1], g.val[2]>>
            geoOk == g.kind = "return"
        IN \E w \in {IF geoOk THEN fetch_openweather(pt, wo) ELSE Skipped : wo \in Outcomes} :
           \E k \in {IF geoOk /\ w.kind = "return" THEN fetch_kp(ko) ELSE Skipped :
                       ko \in Outcomes} :
               LET wOk == geoOk /\ w.kind = "return"
                   u == FetchUpdate(Session, g, w, k)
               IN /\ cache_geo' = [cache_geo EXCEPT ![place] = g.entry]
                  /\ cache_weather' = IF geoOk THEN [cache_weather EXCEPT ![pt] = w.entry]
                                      ELSE cache_weather
                  /\ cache_kp' = IF wOk THEN k.entry ELSE cache_kp
                  /\ loc' = u.sess.loc
                  /\ weather_df' = u.sess.weather_df
                  /\ kp_df' = u.sess.kp_df
                  /\ prediction_done' = u.sess.prediction_done
                  /\ pendingFail' = IF wOk THEN Absent
                                    ELSE IF geoOk THEN Some(pt)
                                    ELSE pendingFail
                  /\ lastRun' = [NoRun EXCEPT !.mode = "location", !.pressed = "fetch",
                                    !.requests = g.requests \o w.requests \o k.requests,
                                    !.raised = u.raised,
                                    !.shown = IF u.raised THEN "exception"
                                              ELSE Shown(u.sess.weather_df,
                                                         u.sess.prediction_done)]
                  /\ lastCall' = NoCall
                  /\ UNCHANGED <<clock, ORS_API_KEY, prediction, route_data, prevCall>>

\* A run with 'Predict GNSS Outage' pressed: the button exists only when a
\* forecast table is in the session; the time is one the table offers and
\* n_pts the slider value. The forest itself (fit, predict, report) is the
\* library's and is represented by the labelled population it is trained on,
\* drawn here with MaxN rows.
RunPredict ==
    \E ts \in Times, n_pts \in 1..MaxN :
        /\ Has(weather_df)
        /\ IF ~Has(loc)
           THEN /\ lastRun' = [NoRun EXCEPT !.mode = "location", !.pressed = "predict",
                                  !.raised = TRUE, !.shown = "exception"]
                /\ UNCHANGED <<prediction, prediction_done>>
           ELSE LET l == Get(loc)
                    fixed == get_fixed_values(l[1], l[2], ts)
                    outage == predict_outage(fixed.cloud, fixed.rain, fixed.tec, fixed.kp)
                    train == simulate_points(MaxN, l[1], l[2], ts)
                    labels == [r \in 1..Len(train) |->
                                 predict_outage(train[r].cloud, train[r].rain,
                                                train[r].tec, train[r].kp)]
                IN /\ prediction' = Some([lat |-> l[1], lon |-> l[2], place |-> l[3],
                                          dt |-> ts, cloud |-> fixed.cloud,
                                          rain |-> fixed.rain, tec |-> fixed.tec,
                                          kp |-> fixed.kp, outage |-> outage,
                                          sim |-> n_pts])
                   /\ prediction_done' = Some(TRUE)
                   /\ lastRun' = [NoRun EXCEPT !.mode = "location", !.pressed = "predict",
                                     !.trainedFor = Some(<<l[1], l[2]>>),
                                     !.labels = labels, !.shown = "result"]
        /\ lastCall' = NoCall
        /\ UNCHANGED <<clock, ORS_API_KEY, cacheVars, loc, weather_df, kp_df,
                       pendingFail, route_data, prevCall>>

\* A run with no button pressed (any other widget change): the page is drawn
\* from the session; drawing the result reads st.session_state.prediction.
RunLocationIdle ==
    /\ lastRun' = [NoRun EXCEPT !.mode = "location",
                      !.raised = (prediction_done = Some(TRUE) /\ ~Has(prediction)),
                      !.shown = IF prediction_done = Some(TRUE) /\ ~Has(prediction)
                                THEN "exception"
                                ELSE Shown(weather_df, prediction_done)]
    /\ lastCall' = NoCall
    /\ UNCHANGED <<clock, ORS_API_KEY, cacheVars, locVars, route_data, prevCall>>

\* The cached fetchers and the geocoders called on their own.
CallFetchOpenweather ==
    \E pt \in Points, wo \in Outcomes :
        LET w == fetch_openweather(pt, wo)
        IN /\ cache_weather' = [cache_weather EXCEPT ![pt] = w.entry]
           /\ lastCall' = CachedCallRecord("fetch_openweather", pt, w, cache_weather[pt])
           /\ lastRun' = NoRun
           /\ UNCHANGED <<clock, ORS_API_KEY, cache_kp, cache_geo, locVars, route_data,
                          prevCall>>

CallFetchKp ==
    \E ko \in Outcomes :
        LET k == fetch_kp(ko)
        IN /\ cache_kp' = k.entry
           /\ lastCall' = CachedCallRecord("fetch_kp", <<>>, k, cache_kp)
           /\ lastRun' = NoRun
           /\ UNCHANGED <<clock, ORS_API_KEY, cache_weather, cache_geo, locVars,
                          route_data, prevCall>>

CallGeocodePlace ==
    \E place \in Places, o1, o2 \in GeoOutcomes :
        LET g == geocode_place(place, o1, o2)
        IN /\ cache_geo' = [cache_geo EXCEPT ![place] = g.entry]
           /\ lastCall' = CachedCallRecord("geocode_place", <<place, o1, o2>>, g,
                                           cache_geo[place])
           /\ lastRun' = NoRun
           /\ UNCHANGED <<clock, ORS_API_KEY, cache_weather, cache_kp, locVars,
                          route_data, prevCall>>

CallOrsGeocode ==
    \E place \in Places, o \in OrsOutcomes :
        LET r == ors_geocode(place, o)
        IN /\ route_data.state = "unset"
           /\ lastCall' = Call("ors_geocode", <<place, o>>, r.requests, r.kind, r.val)
           /\ lastRun' = NoRun
           /\ UNCHANGED <<clock, ORS_API_KEY, cacheVars, locVars, route_data, prevCall>>

\* An hour or more passes: every cache entry is then older than its ttl and
\* is never served again.
CachesExpire ==
    /\ cache_weather' = [pt \in Points |-> Absent]
    /\ cache_kp' = Absent
    /\ cache_geo' = [p \in Places |-> Absent]
    /\ UNCHANGED <<clock, ORS_API_KEY, locVars, route_data, lastCall, prevCall, lastRun>>

InitLoc == InitState /\ ORS_API_KEY = TRUE

NextLoc ==
    \/ CachesExpire
    \/ RunFetch
    \/ RunPredict
    \/ RunLocationIdle

SpecLoc == InitLoc /\ [][NextLoc]_vars

\* C1: once the weather fetch of a 'Fetch Available Times' run has raised
\* for a newly geocoded location, no 'Predict GNSS Outage' run trains the
\* classifier for that location until a later fetch succeeds.
C1_NoTrainingAfterFailedFetch ==
    ~(/\ lastRun.pressed = "predict"
      /\ Has(lastRun.trainedFor)
      /\ Has(pendingFail)
      /\ Get(lastRun.trainedFor) = Get(pendingFail))

\* C10: in every reachable session state a forecast table implies a stored
\* location and prediction_done implies a stored prediction; no Predict run
\* and no plain re-render ends in an exception for a missing key.
C10_SessionInvariant ==
    /\ Has(weather_df) => Has(loc)
    /\ prediction_done = Some(TRUE) => Has(prediction)
    /\ (lastRun.mode = "location" /\ lastRun.pressed # "fetch") => ~lastRun.raised

\* A fetch whose Kp request raised after an earlier prediction: the forecast
\* and the location are new, the prediction shown is still the old one.
C10_Witness ==
    /\ lastRun.pressed = "fetch"
    /\ lastRun.raised
    /\ Has(weather_df)
    /\ prediction_done = Some(TRUE)
    /\ Get(prediction).place # Get(loc)[3]

InitCache == InitState /\ ORS_API_KEY = TRUE

NextCache ==
    \/ Tick(MaxTicks)
    \/ CallFetchOpenweather
    \/ CallFetchKp

SpecCache == InitCache /\ [][NextCache]_vars

InitGeo == InitState /\ ORS_API_KEY \in BOOLEAN

NextGeo ==
    \/ Tick(GeoTicks)
    \/ CallGeocodePlace
    \/ CallOrsGeocode

SpecGeo == InitGeo /\ [][NextGeo]_vars

\* --------------------------------------------------------------- route mode

SuggestOutcomes == {"ok", "fail"}

\* fetch_location_suggestions(query): [] without a request when the query is
\* empty or the key is missing; the labels of the features on success; the
\* bare except turns a failed request into []. The variant tests the query only.
fetch_location_suggestions_no_key_check(query, outcome) ==
    IF query = "" THEN [requests |-> <<>>, val |-> <<>>]
    ELSE IF outcome = "ok"
         THEN [requests |-> << <<"geocode/autocomplete", query>> >>, val |-> <<query>>]
    ELSE [requests |-> << <<"geocode/autocomplete", query>> >>, val |-> <<>>]
fetch_location_suggestions(query, outcome) ==
    IF query = "" \/ ~ORS_API_KEY THEN [requests |-> <<>>, val |-> <<>>]
    ELSE IF outcome = "ok"
         THEN [requests |-> << <<"geocode/autocomplete", query>> >>, val |-> <<query>>]
    ELSE [requests |-> << <<"geocode/autocomplete", query>> >>, val |-> <<>>]

\* What the directions provider can answer: a failed request, a response
\* without features, or one feature whose geometry is a polyline of
\* [lon, lat] pairs with a summary.
Summary == [distance |-> 12000, duration |-> 900]
ProviderRoutes == Routes \ {<<>>}
Geometry(route) == [i \in 1..Len(route) |-> <<route[i][2], route[i][1]>>]
DirFail == [status |-> "fail", features |-> <<>>]
DirResponses ==
    {DirFail, [status |-> "ok", features |-> <<>>]}
    \cup {[status |-> "ok",
           features |-> <<[geometry |-> Geometry(route), summary |-> Summary]>>] :
            route \in ProviderRoutes}

\* The outcomes of the requests one get_route call makes: the directions
\* response is an input only when both endpoints were found, i.e. only when
\* that request is made.
GetRouteInputs ==
    {x \in OrsOutcomes \X OrsOutcomes \X DirResponses :
        (x[1] = "found" /\ x[2] = "found") \/ x[3] = DirFail}

GeocodingFailed == "Geocoding failed for start or end"
NoRouteFound == "No route found"

\* get_route(start, end): both endpoints are geocoded, then checked; the
\* directions request carries [lon, lat] pairs; the geometry is converted to
\* (lat, lon) tuples. The variant tests `not start_info and not end_info`, so
\* that one missing endpoint fails on the subscript instead.
get_route_and(start, end, gs, ge, d) ==
    LET s == ors_geocode(start, gs)
        e == ors_geocode(end, ge)
        geo == s.requests \o e.requests
    IN IF s.kind = "None" /\ e.kind = "None"
       THEN [requests |-> geo, kind |-> "raise", val |-> NoRoute, err |-> GeocodingFailed]
       ELSE IF s.kind = "None" \/ e.kind = "None"
       THEN [requests |-> geo, kind |-> "raise", val |-> NoRoute,
             err |-> "'NoneType' object is not subscriptable"]
       ELSE LET req == <<"directions", <<s.val[2], s.val[1]>>, <<e.val[2], e.val[1]>>>>
            IN IF d.status = "fail"
               THEN [requests |-> Append(geo, req), kind |-> "raise", val |-> NoRoute,
                     err |-> "HTTP error"]
               ELSE IF d.features = <<>>
               THEN [requests |-> Append(geo, req), kind |-> "raise", val |-> NoRoute,
                     err |-> NoRouteFound]
               ELSE LET geom == d.features[1].geometry
                    IN [requests |-> Append(geo, req), kind |-> "return",
                        val |-> [state |-> "route",
                                 route |-> [i \in 1..Len(geom) |-> <<geom[i][2], geom[i][1]>>],
                                 s_info |-> s.val, e_info |-> e.val,
                                 summary |-> d.features[1].summary],
                        err |-> ""]
get_route(start, end, gs, ge, d) ==
    LET s == ors_geocode(start, gs)
        e == ors_geocode(end, ge)
        geo == s.requests \o e.requests
    IN IF s.kind = "None" \/ e.kind = "None"
       THEN [requests |-> geo, kind |-> "raise", val |-> NoRoute, err |-> GeocodingFailed]
       ELSE LET req == <<"directions", <<s.val[2], s.val[1]>>, <<e.val[2], e.val[1]>>>>
            IN IF d.status = "fail"
               THEN [requests |-> Append(geo, req), kind |-> "raise", val |-> NoRoute,
                     err |-> "HTTP error"]
               ELSE IF d.features = <<>>
               THEN [requests |-> Append(geo, req), kind |-> "raise", val |-> NoRoute,
                     err |-> NoRouteFound]
               ELSE LET geom == d.features[1].geometry
                    IN [requests |-> Append(geo, req), kind |-> "return",
                        val |-> [state |-> "route",
                                 route |-> [i \in 1..Len(geom) |-> <<geom[i][2], geom[i][1]>>],
                                 s_info |-> s.val, e_info |-> e.val,
                                 summary |-> d.features[1].summary],
                        err |-> ""]

\* The number of TRUE labels: the `outages` counter of the drawing loop.
RECURSIVE CountTrue(_)
CountTrue(labels) ==
    IF labels = <<>> THEN 0
    ELSE (IF Head(labels) THEN 1 ELSE 0) + CountTrue(Tail(labels))

\* Lines 119-148: the segments drawn and the four metrics shown for a stored route.
RouteMetrics(rd) ==
    LET outages == CountTrue(RouteLabels(rd.route))
    IN [distance |-> rd.summary.distance, duration |-> rd.summary.duration,
        outage |-> outages, normal |-> Len(rd.route) - outages]

\* Lines 110-117: the button handler. An empty selection is refused with a
\* sidebar error; otherwise get_route runs inside try/except. The variant
\* calls get_route whatever the selections.
Press_unvalidated(rd, start, end, r) ==
    IF r.kind = "raise"
    THEN [route_data |-> rd, requests |-> r.requests, message |-> r.err]
    ELSE [route_data |-> r.val, requests |-> r.requests, message |-> ""]
Press(rd, start, end, r) ==
    IF start = "" \/ end = ""
    THEN [route_data |-> rd, requests |-> <<>>,
          message |-> "Both start and end must be selected from suggestions."]
    ELSE IF r.kind = "raise"
         THEN [route_data |-> rd, requests |-> r.requests, message |-> r.err]
    ELSE [route_data |-> r.val, requests |-> r.requests, message |-> ""]

NoPress(rd) == [route_data |-> rd, requests |-> <<>>, message |-> ""]

\* One run of show_route_mode. The texts typed, the suggestions' outcomes,
\* the selections (the empty one or a suggestion of this run) and, with the
\* button pressed, the outcomes of get_route's requests are the inputs. The
\* button exists only once the page has been drawn, i.e. route_data is set.
\* The run record keeps the selections of a press only.
RunRoute ==
    IF ~ORS_API_KEY
    THEN /\ lastRun' = [NoRun EXCEPT !.mode = "route", !.shown = "missing_key",
                           !.message = "ORS_API_KEY not set"]
         /\ lastCall' = NoCall
         /\ UNCHANGED <<clock, ORS_API_KEY, cacheVars, locVars, route_data, prevCall>>
    ELSE \E sug1, sug2 \in {fetch_location_suggestions(q, o) :
                                q \in {""} \cup Places, o \in SuggestOutcomes} :
         LET rd0 == IF route_data.state = "unset" THEN NoneRoute ELSE route_data
         IN \E pressed \in IF route_data.state = "unset" THEN {FALSE} ELSE BOOLEAN :
            \E start \in {""} \cup {sug1.val[i] : i \in 1..Len(sug1.val)},
               end \in {""} \cup {sug2.val[i] : i \in 1..Len(sug2.val)} :
            \E h \in IF ~pressed THEN {NoPress(rd0)}
                     ELSE IF start = "" \/ end = ""
                     THEN {Press(rd0, start, end, get_route(start, end, "fail", "fail", DirFail))}
                     ELSE {Press(rd0, start, end, get_route(start, end, x[1], x[2], x[3])) :
                             x \in GetRouteInputs} :
                /\ route_data' = h.route_data
                /\ lastRun' = [NoRun EXCEPT
                      !.mode = "route",
                      !.pressed = IF pressed THEN "route" ELSE "none",
                      !.args = IF pressed THEN <<start, end>> ELSE <<>>,
                      !.requests = sug1.requests \o sug2.requests \o h.requests,
                      !.message = h.message,
                      !.shown = IF h.route_data.state = "route" THEN "map" ELSE "info",
                      !.labels = IF h.route_data.state = "route"
                                 THEN RouteLabels(h.route_data.route) ELSE <<>>,
                      !.metrics = IF h.route_data.state = "route"
                                  THEN <<RouteMetrics(h.route_data)>> ELSE <<>>]
                /\ lastCall' = NoCall
                /\ UNCHANGED <<clock, ORS_API_KEY, cacheVars, locVars, prevCall>>

\* The functions of route_mode.py called on their own. They read the key and
\* nothing of the session, and are exercised before a session holds a route.
CallFetchLocationSuggestions ==
    \E q \in {""} \cup Places, o \in SuggestOutcomes :
        LET r == fetch_location_suggestions(q, o)
        IN /\ route_data.state = "unset"
           /\ lastCall' = Call("fetch_location_suggestions", <<q, o>>, r.requests,
                               "return", r.val)
           /\ lastRun' = NoRun
           /\ UNCHANGED <<clock, ORS_API_KEY, cacheVars, locVars, route_data, prevCall>>

CallGetRoute ==
    \E start, end \in Places, x \in GetRouteInputs :
        LET r == get_route(start, end, x[1], x[2], x[3])
        IN /\ route_data.state = "unset"
           /\ lastCall' = Call("get_route", <<start, end, x[1], x[2]>>, r.requests, r.kind,
                               <<r.val, r.err>>)
           /\ lastRun' = NoRun
           /\ UNCHANGED <<clock, ORS_API_KEY, cacheVars, locVars, route_data, prevCall>>

InitRoute == InitState /\ ORS_API_KEY \in BOOLEAN

NextRoute ==
    \/ RunRoute
    \/ CallFetchLocationSuggestions
    \/ CallOrsGeocode
    \/ CallGetRoute

SpecRoute == InitRoute /\ [][NextRoute]_vars

IsRequest(req, endpoints) == req[1] \in endpoints
NoRequestTo(requests, endpoints) ==
    \A i \in 1..Len(requests) : ~IsRequest(requests[i], endpoints)

\* C4: drawing a stored route of n >= 1 vertices labels exactly the n-1
\* vertices after the first, vertex i+1 seeded with its own coordinates and
\* the index i, and Outage Segments plus Normal Segments equals n-1.
C4_SegmentsCounted ==
    (lastRun.mode = "route" /\ lastRun.shown = "map") =>
        LET route == route_data.route
            n == Len(route)
            m == lastRun.metrics[1]
        IN /\ Len(lastRun.labels) = n - 1
           /\ \A i \in 1..(n - 1) :
                lastRun.labels[i] = get_outage_prediction(route[i + 1][1], route[i + 1][2], i)
           /\ m.outage + m.normal = n - 1

\* C5: a press with the start or the end selection empty issues no geocoding
\* and no directions request, shows the sidebar error, raises nothing and
\* leaves route_data as it was.
C5_EmptySelectionRejected ==
    [][(lastRun'.mode = "route" /\ lastRun'.pressed = "route"
          /\ (lastRun'.args[1] = "" \/ lastRun'.args[2] = "")) =>
        /\ NoRequestTo(lastRun'.requests, {"geocode/search", "directions"})
        /\ lastRun'.message = "Both start and end must be selected from suggestions."
        /\ ~lastRun'.raised
        /\ route_data' = route_data]_vars

\* A press with a start selected and no end, over a route stored earlier.
C5_Witness ==
    /\ lastRun.pressed = "route"
    /\ lastRun.args[1] # ""
    /\ lastRun.args[2] = ""
    /\ route_data.state = "route"

C9_KeyMissingDisables ==
    ~ORS_API_KEY =>
        /\ route_data = NoRoute
        /\ lastRun.mode = "route" =>
              /\ lastRun.shown = "missing_key"
              /\ lastRun.requests = <<>>
              /\ ~lastRun.raised
        /\ lastCall.fn = "fetch_location_suggestions" =>
              /\ lastCall.out.val = <<>>
              /\ lastCall.requests = <<>>
        /\ lastCall.fn = "ors_geocode" =>
              /\ lastCall.out.kind = "None"
              /\ lastCall.requests = <<>>

\* A non-empty query for suggestions with the key missing.
C9_Witness ==
    /\ ~ORS_API_KEY
    /\ lastCall.fn = "fetch_location_suggestions"
    /\ lastCall.args[1] # ""

TtlOf(fn) == IF fn = "fetch_openweather" THEN TTL_WEATHER ELSE TTL_KP

\* C7: a call of fetch_openweather (per (lat, lon)) or fetch_kp that finds an
\* entry younger than the ttl issues no request and returns the entry's value;
\* a call that finds an entry as old as the ttl or older issues exactly one.
C7_CacheWindow ==
    (lastCall.fn \in {"fetch_openweather", "fetch_kp"} /\ Has(lastCall.before)) =>
        LET age == lastCall.at - Get(lastCall.before).at
        IN /\ age < TtlOf(lastCall.fn) =>
                /\ lastCall.requests = <<>>
                /\ lastCall.out.kind = "return"
                /\ lastCall.out.val = Get(lastCall.before).val
           /\ age >= TtlOf(lastCall.fn) => Len(lastCall.requests) = 1

\* fetch_kp called when its entry is an hour old or older.
C7_Witness ==
    /\ lastCall.fn = "fetch_kp"
    /\ Has(lastCall.before)
    /\ lastCall.at - Get(lastCall.before).at >= TTL_KP
    /\ Len(lastCall.requests) = 1

\* C8: ors_geocode never raises and returns None when the provider has no
\* feature, the request fails or the key is missing (then without a request);
\* geocode_place issues at most two queries, the second being the place with
\* ", India" and only after a first that found nothing or timed out, returns
\* None when neither found the place, and raises only on another provider error.
C8_NotFoundIsNone ==
    /\ lastCall.fn = "ors_geocode" =>
          /\ lastCall.out.kind \in {"return", "None"}
          /\ (lastCall.args[2] # "found" \/ ~ORS_API_KEY) => lastCall.out.kind = "None"
          /\ ~ORS_API_KEY => lastCall.requests = <<>>
    /\ lastCall.fn = "geocode_place" =>
          LET place == lastCall.args[1]
              o1 == lastCall.args[2]
              o2 == lastCall.args[3]
              n == Len(lastCall.requests)
          IN /\ n <= 2
             /\ n >= 1 => lastCall.requests[1] = <<"nominatim", place, "">>
             /\ n = 2 => /\ lastCall.requests[2] = <<"nominatim", place, ", India">>
                         /\ o1 \in Swallowed
             /\ (n >= 1 /\ o1 \in Swallowed) => n = 2
             /\ (n = 2 /\ o2 \in Swallowed) => lastCall.out.kind = "None"
             /\ lastCall.out.kind = "raise" =>
                    \/ n = 1 /\ o1 = "error"
                    \/ n = 2 /\ o2 = "error"

\* geocode_place asked both queries and neither found the place.
C8_Witness ==
    /\ lastCall.fn = "geocode_place"
    /\ Len(lastCall.requests) = 2
    /\ lastCall.args[3] = "timeout"
    /\ lastCall.out.kind = "None"

====
